---- MODULE Spec2Model ----
(***************************************************************************)
(* Model of the Zirconium lexer (src/src/Lexer.ts, the ZrLexer class that  *)
(* takes LexerOptions) over the ZrTextStream with getPtr.                  *)
(*                                                                         *)
(* A source is a sequence of one-character strings.  Stream positions are  *)
(* 0-based as in the source (roblox-ts string macros): the character at    *)
(* pointer p is src[p + 1].  A token is a record holding exactly the       *)
(* fields its object literal sets; flags is the set of flag bits.  The     *)
(* lexer keeps references to token objects (currentToken aliases an        *)
(* element of previousTokens), so a token is denoted by its index in       *)
(* previousTokens and 0 stands for undefined.                              *)
(*                                                                         *)
(* The node factories and node functions, and the CommandAstParser of      *)
(* src/src/index.ts, are modelled in the sections of their own below.      *)
(***************************************************************************)
EXTENDS Integers, Sequences, FiniteSets, TLC

\* ------------------------------------------------------------------ bounds
MaxFrags == 3

\* direct calls on the text stream: the largest next(n), the largest
\* peek(k), and how far past the end of the text the pointer is followed
MaxStep == 2
MaxOffset == 2
MaxPast == 2

\* the node module: the nodes of an arena that were given no node (leaves),
\* the nodes that were given nodes or a list, and the length of such a list
MaxLeaves == 2
MaxComposites == 2
MaxList == 2

\* --------------------------------------------------------- character sets
TokenCharacter ==
    [Hash |-> "#", Dollar |-> "$", DoubleQuote |-> "\"", SingleQuote |-> "'",
     Dot |-> ".", Dash |-> "-"]

Grammar ==
    [Operators       |-> {"&", "|", "=", ">", "<", "-", "+", "/", "*", "!"},
     EndOfStatement  |-> {";", "\n"},
     Punctuation     |-> {"(", ")", ",", "{", "}", "[", "]", ".", ":", "\\"},
     BooleanLiterals |-> {<<"t", "r", "u", "e">>, <<"f", "a", "l", "s", "e">>},
     Keywords        |-> {<<"i", "f">>, <<"e", "l", "s", "e">>, <<"f", "o", "r">>,
                          <<"i", "n">>,
                          <<"f", "u", "n", "c", "t", "i", "o", "n">>}]

Digit == {"0", "1", "2", "3", "4", "5", "6", "7", "8", "9"}

Alpha ==
    {"a", "b", "c", "d", "e", "f", "g", "h", "i", "j", "k", "l", "m", "n", "o",
     "p", "q", "r", "s", "t", "u", "v", "w", "x", "y", "z",
     "A", "B", "C", "D", "E", "F", "G", "H", "I", "J", "K", "L", "M", "N", "O",
     "P", "Q", "R", "S", "T", "U", "V", "W", "X", "Y", "Z"}

\* the Lua class %s
Space == {" ", "\t", "\n", "\r", "\f"}

\* characters that belong to no class of the lexer
Stray == {"@", "~", "%", "^", "?"}

Char ==
    Digit \cup Alpha \cup Space \cup Stray \cup Grammar.Operators
      \cup Grammar.EndOfStatement \cup Grammar.Punctuation
      \cup {"#", "$", "\"", "'", "_"}

isNumeric(c) == c \in Digit
isSpecial(c) == c \in Grammar.Punctuation
isNotNewline(c) == c # "\n"
isNotEndOfStatement(c) == c # "\n" /\ c # ";"
isKeyword(w) == w \in Grammar.Keywords
isWhitespace(c) == c \in Space /\ c # "\n"
isId(c) == c \in Digit \cup Alpha \cup {"_"}
isOptionId(c) == c \in Digit \cup Alpha \cup {"_", "-"}

\* ------------------------------------------------------------ ZrTextStream
\* source.sub(i, j) with 0-based inclusive positions, clamped to the text
Sub(s, i, j) ==
    LET lo == IF i < 0 THEN 0 ELSE i
        hi == IF j > Len(s) - 1 THEN Len(s) - 1 ELSE j
    IN  IF lo > hi THEN <<>> ELSE SubSeq(s, lo + 1, hi + 1)

\* peek(offset): the character at ptr + offset, "" past the end
StreamPeekAtPointer(s, p, offset) ==
    IF p >= 0 /\ p < Len(s) THEN s[p + 1] ELSE ""
StreamPeek(s, p, offset) ==
    IF p + offset >= 0 /\ p + offset < Len(s) THEN s[p + offset + 1] ELSE ""

StreamHasNext(s, p) == Len(s) > p

\* next(offset): the pointer after the call
StreamNext(p, offset) == p + offset

\* ------------------------------------------------------------- readWhile
\* the pointer after readWhile(c => c \in accept) started at p; the text it
\* returns is Sub(s, p, result - 1)
RECURSIVE readWhile(_, _, _)
readWhile(s, p, accept) ==
    IF StreamHasNext(s, p) /\ StreamPeek(s, p, 0) \in accept
    THEN readWhile(s, StreamNext(p, 1), accept)
    ELSE p


WhitespaceChars == {c \in Char : isWhitespace(c)}
IdChars == {c \in Char : isId(c)}
OptionIdChars == {c \in Char : isOptionId(c)}
NotNewlineChars == {c \in Char : isNotNewline(c)}
OperatorChars == {c \in Char : c \in Grammar.Operators}
LiteralCharsNoStray ==
    {c \in Char :
        /\ isNotEndOfStatement(c)
        /\ ~isWhitespace(c)
        /\ ~isSpecial(c)
        /\ c \in Digit \cup Alpha \cup Grammar.Operators \cup {"_", "#", "$"}}
LiteralChars ==
    {c \in Char :
        /\ isNotEndOfStatement(c)
        /\ ~isWhitespace(c)
        /\ ~isSpecial(c)
        /\ c # TokenCharacter.DoubleQuote
        /\ c # TokenCharacter.SingleQuote
        /\ c # "\n"}

\* ------------------------------------------------------------ token flags
ZrTokenFlag ==
    [None |-> {}, UnterminatedString |-> {"UnterminatedString"},
     Interpolated |-> {"Interpolated"}, Label |-> {"Label"},
     FunctionName |-> {"FunctionName"}]

\* array.join(sep) of an array of strings
RECURSIVE Join(_, _)
Join(values, sep) ==
    IF values = <<>> THEN <<>>
    ELSE IF Len(values) = 1 THEN values[1]
    ELSE values[1] \o sep \o Join(Tail(values), sep)

\* -------------------------------------------------------- parseLongString
\* src.push(str) when a `$` is met
pushChunkNonEmpty(src, str) == IF str = <<>> THEN src ELSE Append(src, str)
pushChunk(src, str) == Append(src, str)

\* the test that decides whether the character read is taken literally
wasEscapedNever(st) == FALSE
wasEscaped(st) == st.escaped

RECURSIVE longStringLoop(_, _, _)
longStringLoop(s, character, st) ==
    IF ~StreamHasNext(s, st.ptr) THEN st
    ELSE
      LET char == StreamPeek(s, st.ptr, 0)
          p1 == StreamNext(st.ptr, 1)
      IN  IF wasEscaped(st)
          THEN longStringLoop(s, character,
                 [st EXCEPT !.ptr = p1, !.escaped = FALSE, !.str = Append(@, char)])
          ELSE IF char = "\\"
          THEN longStringLoop(s, character,
                 [st EXCEPT !.ptr = p1, !.escaped = TRUE, !.str = Append(@, char)])
          ELSE IF char = character
          THEN [st EXCEPT !.ptr = p1, !.closed = TRUE]
          ELSE IF char = TokenCharacter.Dollar
          THEN LET p2 == readWhile(s, p1, IdChars)
               IN  longStringLoop(s, character,
                     [st EXCEPT !.ptr = p2, !.src = pushChunk(@, st.str),
                                !.str = <<>>,
                                !.vars = Append(@, Sub(s, p1, p2 - 1))])
          ELSE longStringLoop(s, character,
                 [st EXCEPT !.ptr = p1, !.str = Append(@, char)])

\* [src, vars, closed] and the pointer the scan leaves
parseLongString(s, p, character) ==
    LET st == longStringLoop(s, character,
                [ptr |-> StreamNext(p, 1), str |-> <<>>, src |-> <<>>,
                 vars |-> <<>>, escaped |-> FALSE, closed |-> FALSE])
    IN  [src |-> IF st.str # <<>> THEN Append(st.src, st.str) ELSE st.src,
         vars |-> st.vars, closed |-> st.closed, ptr |-> st.ptr]

\* the flags of a quoted string by its closed result
closedFlagsSwapped(closed) ==
    IF closed THEN ZrTokenFlag.UnterminatedString ELSE ZrTokenFlag.None
closedFlags(closed) ==
    IF closed THEN ZrTokenFlag.None ELSE ZrTokenFlag.UnterminatedString

\* a scan result: the token and the pointer after the scan
readStringToken(s, p, startCharacter) ==
    LET startPos == p
        r == parseLongString(s, p, startCharacter)
        endPos == r.ptr
    IN  IF Len(r.vars) = 0
        THEN [ptr |-> r.ptr,
              tok |-> [kind |-> "String", value |-> Join(r.src, <<" ">>),
                       startPos |-> startPos, closed |-> r.closed,
                       flags |-> closedFlags(r.closed), endPos |-> endPos,
                       quotes |-> startCharacter]]
        ELSE [ptr |-> r.ptr,
              tok |-> [kind |-> "InterpolatedString", values |-> r.src,
                       variables |-> r.vars, startPos |-> startPos,
                       flags |-> closedFlags(r.closed) \cup ZrTokenFlag.Interpolated,
                       endPos |-> endPos, quotes |-> startCharacter]]

parseBooleanOfFalse(value) == value = <<"f", "a", "l", "s", "e">>
parseBoolean(value) == value = <<"t", "r", "u", "e">>

\* ------------------------------------------------------------ the history
\* the index size - offset taken as it is, without the step from 0-based
prevOneBased(hist, offset) ==
    IF offset > 0 /\ Len(hist) - offset > 0 THEN Len(hist) - offset ELSE 0

\* previousTokens[size - offset] as an index of the history, 0 for undefined
prev(hist, offset) ==
    IF offset > 0 /\ Len(hist) - offset >= 0 THEN Len(hist) - offset + 1 ELSE 0

RECURSIVE prevSkipLoop(_, _)
prevSkipLoop(hist, i) ==
    IF i > 0
    THEN IF hist[i + 1].kind # "Whitespace" THEN i + 1
         ELSE prevSkipLoop(hist, i - 1)
    ELSE 0

prevSkipWhitespace(hist, offset) == prevSkipLoop(hist, Len(hist) - offset)

prevIs(hist, kind, offset) ==
    prev(hist, offset) # 0 /\ hist[prev(hist, offset)].kind = kind

\* ------------------------------------------------------- readLiteralString
readLiteralString(s, p, hist) ==
    LET startPos == p
        p2 == readWhile(s, p, LiteralChars)
        literal == Sub(s, p, p2 - 1)
        endPos == p2 - 1
        previous == prev(hist, 2)
    IN  IF isKeyword(literal)
        THEN [ptr |-> p2,
              tok |-> [kind |-> "Keyword", startPos |-> startPos,
                       endPos |-> endPos, flags |-> ZrTokenFlag.None,
                       value |-> literal]]
        ELSE IF literal \in Grammar.BooleanLiterals
        THEN [ptr |-> p2,
              tok |-> [kind |-> "Boolean", startPos |-> startPos,
                       endPos |-> endPos, flags |-> ZrTokenFlag.None,
                       value |-> parseBoolean(literal), rawText |-> literal]]
        ELSE IF /\ previous # 0
                /\ prevIs(hist, "Keyword", 2)
                /\ hist[previous].value = <<"f", "u", "n", "c", "t", "i", "o", "n">>
        THEN [ptr |-> p2,
              tok |-> [kind |-> "Identifier", startPos |-> startPos,
                       endPos |-> endPos, flags |-> ZrTokenFlag.FunctionName,
                       value |-> literal]]
        ELSE [ptr |-> p2,
              tok |-> [kind |-> "String", startPos |-> startPos,
                       endPos |-> endPos, closed |-> TRUE,
                       flags |-> ZrTokenFlag.None, value |-> literal]]

\* -------------------------------------------------------------- readNumber
\* readWhile with the closure over isDecimal
\* the class [%d._] of the lexers before the decimal-aware one
readNumberLoopAnyDot(s, p, isDecimal) ==
    readWhile(s, p, Digit \cup {".", "_"})

RECURSIVE readNumberLoop(_, _, _)
readNumberLoop(s, p, isDecimal) ==
    IF ~StreamHasNext(s, p) THEN p
    ELSE LET c == StreamPeek(s, p, 0)
         IN  IF c = "."
             THEN IF isDecimal THEN p
                  ELSE readNumberLoop(s, StreamNext(p, 1), TRUE)
             ELSE IF isNumeric(c)
                  THEN readNumberLoop(s, StreamNext(p, 1), isDecimal)
                  ELSE p

RECURSIVE dropLeadingZeros(_)
dropLeadingZeros(d) ==
    IF Len(d) > 1 /\ d[1] = "0" THEN dropLeadingZeros(Tail(d)) ELSE d

RECURSIVE dropTrailingZeros(_)
dropTrailingZeros(d) ==
    IF d # <<>> /\ d[Len(d)] = "0"
    THEN dropTrailingZeros(SubSeq(d, 1, Len(d) - 1)) ELSE d

\* tonumber of digits with at most one dot: the integer digits without
\* leading zeros and the fraction digits without trailing zeros
tonumber(raw) ==
    LET dots == {i \in 1..Len(raw) : raw[i] = "."}
        dot == IF dots = {} THEN Len(raw) + 1 ELSE CHOOSE i \in dots : TRUE
    IN  [int |-> dropLeadingZeros(SubSeq(raw, 1, dot - 1)),
         frac |-> dropTrailingZeros(SubSeq(raw, dot + 1, Len(raw)))]

readNumber(s, p) ==
    LET startPos == p
        p2 == readNumberLoop(s, p, FALSE)
        number == Sub(s, p, p2 - 1)
        endPos == p2 - 1
    IN  [ptr |-> p2,
         tok |-> [kind |-> "Number", value |-> tonumber(number),
                  startPos |-> startPos, flags |-> ZrTokenFlag.None,
                  endPos |-> endPos, rawText |-> number]]

\* ------------------------------------------------------- readVariableToken
\* the property access loop: the pointer and the properties read
RECURSIVE readProperties(_, _, _)
readProperties(s, p, properties) ==
    IF StreamHasNext(s, p) /\ StreamPeek(s, p, 0) = "."
    THEN LET p1 == StreamNext(p, 1)
             p2 == readWhile(s, p1, IdChars)
         IN  readProperties(s, p2, Append(properties, Sub(s, p1, p2 - 1)))
    ELSE [ptr |-> p, properties |-> properties]

readVariableToken(s, p) ==
    LET startPos == p
        p1 == StreamNext(p, 1)
        p2 == readWhile(s, p1, IdChars)
        id == Sub(s, p1, p2 - 1)
        r == readProperties(s, p2, <<>>)
        endPos == r.ptr - 1
    IN  IF Len(r.properties) > 0
        THEN [ptr |-> r.ptr,
              tok |-> [kind |-> "PropertyAccess", startPos |-> startPos,
                       endPos |-> endPos, flags |-> ZrTokenFlag.None,
                       properties |-> r.properties, value |-> id]]
        ELSE [ptr |-> r.ptr,
              tok |-> [kind |-> "Identifier", startPos |-> startPos,
                       flags |-> ZrTokenFlag.None, endPos |-> endPos,
                       value |-> id]]

\* -------------------------------------------------------------- readOption
readOption(s, p, prefix) ==
    LET startPos == p
        p2 == readWhile(s, p, OptionIdChars)
        optionName == Sub(s, p, p2 - 1)
        endPos == p2 - 1
    IN  [ptr |-> p2,
         tok |-> [kind |-> "Option", value |-> optionName,
                  flags |-> ZrTokenFlag.None, startPos |-> startPos,
                  endPos |-> endPos, prefix |-> prefix]]

\* ------------------------------------------------------------- readComment
readCommentNomNewline(s, p) == StreamNext(readWhile(s, p, NotNewlineChars), 1)
readComment(s, p) == readWhile(s, p, NotNewlineChars)

\* ---------------------------------------------------------------- readNext
\* prev.flags |= ZrTokenFlag.Label on the token prevSkipWhitespace() returns
labelPrevious(hist) ==
    LET i == prevSkipWhitespace(hist, 1)
    IN  IF i # 0
        THEN [hist EXCEPT ![i].flags = @ \cup ZrTokenFlag.Label]
        ELSE hist

\* The result of one readNext call started at pointer p: found is FALSE for
\* undefined; tok the token; ptr the pointer the call leaves; hist the
\* history with the flags the call set on earlier tokens; begin the pointer
\* at which the scan of the token started (startPos of line 562).
RECURSIVE readNext(_, _, _, _)
readNext(s, p, hist, options) ==
    LET p0 == IF ~options.ParseWhitespaceAsTokens
              THEN readWhile(s, p, WhitespaceChars) ELSE p
        startPos == p0
        char == StreamPeek(s, p0, 0)
        result(r, h) == [found |-> TRUE, tok |-> r.tok, ptr |-> r.ptr,
                         hist |-> h, begin |-> startPos]
    IN  IF ~StreamHasNext(s, p0)
        THEN [found |-> FALSE, tok |-> [kind |-> "undefined"], ptr |-> p0,
              hist |-> hist, begin |-> startPos]
        ELSE IF options.ParseWhitespaceAsTokens /\ isWhitespace(char)
        THEN result([ptr |-> StreamNext(p0, 1),
                     tok |-> [kind |-> "Whitespace", value |-> <<char>>,
                              flags |-> ZrTokenFlag.None,
                              startPos |-> startPos, endPos |-> startPos]], hist)
        ELSE IF char = TokenCharacter.Hash
        THEN LET p1 == readComment(s, p0)
                 value == Sub(s, p0, p1 - 1)
             IN  IF options.ParseCommentsAsTokens
                 THEN result([ptr |-> p1,
                              tok |-> [kind |-> "Comment", value |-> value,
                                       flags |-> ZrTokenFlag.None,
                                       startPos |-> startPos,
                                       endPos |-> startPos + Len(value)]], hist)
                 ELSE readNext(s, p1, hist, options)
        ELSE IF char = TokenCharacter.Dollar
        THEN result(readVariableToken(s, p0), hist)
        ELSE IF char = TokenCharacter.DoubleQuote \/ char = TokenCharacter.SingleQuote
        THEN result(readStringToken(s, p0, char), hist)
        ELSE IF char = TokenCharacter.Dash /\ StreamPeek(s, p0, 1) = TokenCharacter.Dash
        THEN result(readOption(s, StreamNext(p0, 2), <<"-", "-">>), hist)
        ELSE IF isNumeric(char)
        THEN result(readNumber(s, p0), hist)
        ELSE IF char \in Grammar.Operators
        THEN LET p1 == readWhile(s, p0, OperatorChars)
             IN  result([ptr |-> p1,
                         tok |-> [kind |-> "Operator", startPos |-> startPos,
                                  flags |-> ZrTokenFlag.None,
                                  endPos |-> startPos + Len(<<char>>),
                                  value |-> Sub(s, p0, p1 - 1)]], hist)
        ELSE IF char \in Grammar.EndOfStatement
        THEN result([ptr |-> StreamNext(p0, 1),
                     tok |-> [kind |-> "EndOfStatement", startPos |-> startPos,
                              flags |-> ZrTokenFlag.None, endPos |-> startPos,
                              value |-> <<char>>]], hist)
        ELSE IF char \in Grammar.Punctuation
        THEN result([ptr |-> StreamNext(p0, 1),
                     tok |-> [kind |-> "Special", startPos |-> startPos,
                              endPos |-> startPos, flags |-> ZrTokenFlag.None,
                              value |-> <<char>>]],
                    IF char = ":" THEN labelPrevious(hist) ELSE hist)
        ELSE result(readLiteralString(s, p0, hist), hist)

\* ------------------------------------------------- the lexer's public calls
\* A lexer state L is [ptr, hist, cur, scans]: the stream pointer,
\* previousTokens, currentToken (an index of hist, 0 for undefined) and, for
\* each token of hist, the pointers at which its scan began and ended.
\* nextToken pushed on the history when it is defined; ret is the token
pushToken(L, r) ==
    IF r.found
    THEN [ptr |-> r.ptr, hist |-> Append(r.hist, r.tok), cur |-> L.cur,
          scans |-> Append(L.scans, [begin |-> r.begin, end |-> r.ptr]),
          ret |-> Len(r.hist) + 1]
    ELSE [ptr |-> r.ptr, hist |-> r.hist, cur |-> L.cur, scans |-> L.scans,
          ret |-> 0]

fetchNextTokenAlwaysReads(s, L, options) ==
    pushToken(L, readNext(s, L.ptr, L.hist, options))

\* a bareword that is one of options.CommandNames marked as a name
flagCommandName(r, options) ==
    IF r.found /\ r.tok.kind = "String" /\ r.tok.value \in options.CommandNames
    THEN [r EXCEPT !.tok.kind = "Identifier"]
    ELSE r

fetchNextTokenOfCommandNames(s, L, options) ==
    IF L.cur # 0
    THEN [ptr |-> L.ptr, hist |-> L.hist, cur |-> L.cur, scans |-> L.scans,
          ret |-> L.cur]
    ELSE pushToken(L, flagCommandName(readNext(s, L.ptr, L.hist, options),
                                      options))

\* the state after the call and the token it returns
fetchNextToken(s, L, options) ==
    IF L.cur # 0
    THEN [ptr |-> L.ptr, hist |-> L.hist, cur |-> L.cur, scans |-> L.scans,
          ret |-> L.cur]
    ELSE pushToken(L, readNext(s, L.ptr, L.hist, options))

\* this.currentToken = <the token fetched>
setCurrentToken(f, token) == [f EXCEPT !.cur = token]

peekResult(f) == setCurrentToken(f, f.ret)
peek(s, L, options) == peekResult(fetchNextToken(s, L, options))

next(s, L, options) == setCurrentToken(fetchNextToken(s, L, options), 0)

\* peek()?.kind === kind; ret is the token peek returned, is the answer
kindIs(f, kind) ==
    [ptr |-> f.ptr, hist |-> f.hist, cur |-> f.cur, scans |-> f.scans,
     ret |-> f.ret, is |-> (f.ret # 0 /\ f.hist[f.ret].kind = kind)]

isNextOfKind(s, L, options, kind) == kindIs(peek(s, L, options), kind)

RECURSIVE isNextOfAnyKind(_, _, _, _)
anyKindStep(s, f, options, rest) ==
    IF f.is THEN f
    ELSE isNextOfAnyKind(s, [ptr |-> f.ptr, hist |-> f.hist, cur |-> f.cur,
                             scans |-> f.scans], options, rest)

isNextOfAnyKind(s, L, options, kinds) ==
    IF kinds = <<>>
    THEN [ptr |-> L.ptr, hist |-> L.hist, cur |-> L.cur, scans |-> L.scans,
          ret |-> L.cur, is |-> FALSE]
    ELSE anyKindStep(s, isNextOfKind(s, L, options, Head(kinds)), options,
                     Tail(kinds))

hasNext(s, L) == StreamHasNext(s, L.ptr)

\* ================================================================== nodes
\* The node factories and node functions.  Nodes live in an arena (a
\* sequence); a node reference is an index of the arena and 0 stands for
\* undefined.  A node record holds the fields of NodeBase (an unset startPos
\* or endPos is Undefined) and the fields its object literal sets; flags is
\* the set of flag bits (0 is the empty set); a text is a sequence of
\* characters.
Undefined == -1

ZrNodeFlag == [None |-> {}, NodeHasError |-> {"NodeHasError"}]

NodeBase(kind) ==
    [kind |-> kind, flags |-> ZrNodeFlag.None, parent |-> 0,
     startPos |-> Undefined, endPos |-> Undefined]

Range(seq) == {seq[i] : i \in 1..Len(seq)}

\* child.parent = <the node just created, the last of the arena> for each
\* child of kids
setParentOf(arena, kids) ==
    [i \in 1..Len(arena) |->
        IF i \in kids THEN [arena[i] EXCEPT !.parent = Len(arena)] ELSE arena[i]]

\* ---------------------------------------------------------- node functions
\* isNode(node, kind) of ./Guards
isNode(n, kind) == n.kind = kind

\* the decimal digits of a natural number
RECURSIVE digits(_)
digits(n) ==
    IF n < 10 THEN SubSeq(<<"0", "1", "2", "3", "4", "5", "6", "7", "8", "9">>,
                          n + 1, n + 1)
    ELSE digits(n \div 10) \o digits(n % 10)

\* tostring(variables[name]); a value is tagged with its type
tostring(variables, name) ==
    IF name \notin DOMAIN variables THEN <<"n", "i", "l">>
    ELSE IF variables[name].t = "string" THEN variables[name].s
    ELSE IF variables[name].t = "number" THEN digits(variables[name].n)
    ELSE IF variables[name].b THEN <<"t", "r", "u", "e">>
    ELSE <<"f", "a", "l", "s", "e">>

\* the loop with each piece put before the text so far
RECURSIVE flattenLoopReversed(_, _, _, _, _)
flattenLoopReversed(arena, values, variables, i, text) ==
    IF i > Len(values) THEN text
    ELSE flattenLoopReversed(arena, values, variables, i + 1,
             IF isNode(arena[values[i]], "Identifier")
             THEN tostring(variables, arena[values[i]].name) \o text
             ELSE arena[values[i]].text \o text)

\* the text after the loop has run over the values from index i on
RECURSIVE flattenLoop(_, _, _, _, _)
flattenLoop(arena, values, variables, i, text) ==
    IF i > Len(values) THEN text
    ELSE flattenLoop(arena, values, variables, i + 1,
             IF isNode(arena[values[i]], "Identifier")
             THEN text \o tostring(variables, arena[values[i]].name)
             ELSE text \o arena[values[i]].text)

RECURSIVE offsetNodePosition(_, _, _)
RECURSIVE offsetEach(_, _, _, _)
\* for (const child of kids) offsetNodePosition(child, offset), from index i on
offsetEach(arena, kids, i, offset) ==
    IF i > Len(kids) THEN arena
    ELSE offsetEach(offsetNodePosition(arena, kids[i], offset), kids, i + 1,
                    offset)

\* the descent, once the positions of node have been dealt with
offsetDescend(arena, node, offset) ==
    IF "children" \in DOMAIN arena[node]
    THEN offsetEach(arena, arena[node].children, 1, offset)
    ELSE IF "values" \in DOMAIN arena[node]
    THEN offsetEach(arena, arena[node].values, 1, offset)
    ELSE IF "expression" \in DOMAIN arena[node]
    THEN offsetNodePosition(arena, arena[node].expression, offset)
    ELSE arena

\* node.pos += offset; node.endPos += offset, when both are set; then the
\* descent
offsetNodePosition(arena, node, offset) ==
    offsetDescend(
        IF "pos" \in DOMAIN arena[node] /\ arena[node].endPos # Undefined
        THEN [arena EXCEPT ![node].pos = @ + offset, ![node].endPos = @ + offset]
        ELSE arena,
        node, offset)

isParentNode(n) == "children" \in DOMAIN n

\* array.indexOf(x): the 0-based index of the first x, -1 when there is none
indexOf(array, x) ==
    LET I == {i \in 1..Len(array) : array[i] = x}
    IN  IF I = {} THEN -1 ELSE (CHOOSE i \in I : \A j \in I : i <= j) - 1

\* array[index] with a 0-based index, 0 (undefined) outside the array
elementAt(array, index) ==
    IF index >= 0 /\ index < Len(array) THEN array[index + 1] ELSE 0

getNextNode(arena, node) ==
    IF arena[node].parent # 0 /\ isParentNode(arena[arena[node].parent])
    THEN elementAt(arena[arena[node].parent].children,
                   indexOf(arena[arena[node].parent].children, node) + 1)
    ELSE 0

getPreviousNode(arena, node) ==
    IF arena[node].parent # 0 /\ isParentNode(arena[arena[node].parent])
    THEN elementAt(arena[arena[node].parent].children,
                   indexOf(arena[arena[node].parent].children, node) - 1)
    ELSE 0

\* ================================================================= parser
\* CommandAstParser (src/src/index.ts).  A parser P is the record of its
\* fields; status is "parsing" until Parse returned or threw, and error is
\* the value thrown.  A node is a record of its kind and the fields that
\* prettyPrint reads from it; a list of nodes is a sequence.
DEFAULT_PARSER_OPTIONS ==
    [variables |-> TRUE, options |-> TRUE, operators |-> TRUE]

\* raw.trim()
RECURSIVE trim(_)
trim(s) ==
    IF s # <<>> /\ s[1] \in Space THEN trim(Tail(s))
    ELSE IF s # <<>> /\ s[Len(s)] \in Space THEN trim(SubSeq(s, 1, Len(s) - 1))
    ELSE s

\* new CommandAstParser(raw, options)
CommandAstParser(raw, options) ==
    [ptr |-> 0, childNodes |-> <<>>, nodes |-> <<>>, hasCommandName |-> FALSE,
     tokens |-> <<>>, raw |-> trim(raw),
     options |-> options @@ DEFAULT_PARSER_OPTIONS,
     status |-> "parsing", error |-> "", did |-> "new", from |-> 0, had |-> 0]

\* this.next(offset): one character, "" outside the text
parserNext(P, offset) == StreamPeek(P.raw, P.ptr, offset)

nextMatch(P, value, offset) ==
    Sub(P.raw, P.ptr + offset, P.ptr + offset + Len(value) - 1) = value

\* the parser after pop(); the value returned is parserNext(P, 0)
pop(P) == [P EXCEPT !.ptr = @ + 1]

\* createNumberNode, createOption and createOperator of "Nodes"
createNumberNode(value) == [kind |-> "Number", value |-> value]
createOption(flag) == [kind |-> "Option", flag |-> flag]
createOperator(operator) == [kind |-> "Operator", operator |-> operator]

\* getSiblingNode(nodes, kind): the index of the first node of that kind,
\* 0 (undefined) when there is none
getSiblingNode(list, kind) ==
    LET I == {i \in 1..Len(list) : list[i].kind = kind}
    IN  IF I = {} THEN 0 ELSE CHOOSE i \in I : \A j \in I : i <= j

\* tokens.match("^%d+$")[0] !== undefined picks createNumberNode
consume(P) ==
    IF P.tokens # <<>>
    THEN IF ~P.hasCommandName
         THEN [P EXCEPT !.childNodes =
                            Append(@, [kind |-> "CommandName",
                                       name |-> [kind |-> "String",
                                                 text |-> P.tokens]]),
                        !.hasCommandName = TRUE, !.tokens = <<>>]
         ELSE IF \A i \in 1..Len(P.tokens) : P.tokens[i] \in Digit
         THEN [P EXCEPT !.childNodes =
                            Append(@, createNumberNode(tonumber(P.tokens))),
                        !.tokens = <<>>]
         ELSE [P EXCEPT !.childNodes =
                            Append(@, [kind |-> "String", text |-> P.tokens]),
                        !.tokens = <<>>]
    ELSE P

createCommand(P) ==
    LET Q == consume(P)
        ended == Append(Q.childNodes, [kind |-> "End"])
    IN  IF Len(Q.childNodes) > 0
        THEN IF getSiblingNode(ended, "CommandName") # 0
             THEN [Q EXCEPT !.nodes =
                                Append(@, [kind |-> "CommandStatement",
                                           command |->
                                               ended[getSiblingNode(
                                                   ended, "CommandName")],
                                           children |-> ended]),
                            !.hasCommandName = FALSE, !.childNodes = <<>>]
             ELSE [Q EXCEPT !.childNodes = ended, !.status = "threw",
                            !.error = "Could not find CommandNameNode"]
        ELSE Q

RECURSIVE consumeStringLiteral(_, _)
consumeStringLiteral(P, endChar) ==
    IF P.ptr < Len(P.raw)
    THEN IF parserNext(P, 0) = endChar
         THEN consume(pop(P))
         ELSE consumeStringLiteral(
                  [pop(P) EXCEPT !.tokens = Append(@, parserNext(P, 0))],
                  endChar)
    ELSE P

\* char.match("%a") is a letter, char.match("%w") a letter or a digit
RECURSIVE parseVariable(_)
parseVariable(P) ==
    IF P.ptr < Len(P.raw)
    THEN IF parserNext(P, 0) = " " \/ parserNext(P, 0) \notin Alpha
         THEN IF P.tokens # <<>>
              THEN [P EXCEPT !.childNodes =
                                 Append(@, [kind |-> "Identifier",
                                            name |-> P.tokens]),
                             !.tokens = <<>>]
              ELSE [P EXCEPT !.status = "threw",
                             !.error = "Invalid Variable Name"]
         ELSE IF parserNext(P, 0) \in Alpha \cup Digit
         THEN parseVariable(
                  [pop(P) EXCEPT !.tokens = Append(@, parserNext(P, 0))])
         ELSE [pop(P) EXCEPT !.status = "threw",
                             !.error = "Variable cannot contain character"]
    ELSE IF P.tokens # <<>>
    THEN [P EXCEPT !.childNodes =
                       Append(@, [kind |-> "Identifier", name |-> P.tokens]),
                   !.tokens = <<>>]
    ELSE P

\* char.match("[%a%d_-]") is a letter, a digit, `_` or `-`
RECURSIVE parseLongKey(_)
parseLongKey(P) ==
    IF P.ptr < Len(P.raw)
          /\ parserNext(P, 0) # " "
          /\ parserNext(P, 0) \in Alpha \cup Digit \cup {"_", "-"}
    THEN parseLongKey([pop(P) EXCEPT !.tokens = Append(@, parserNext(P, 0))])
    ELSE IF P.tokens # <<>>
    THEN [P EXCEPT !.childNodes = Append(@, createOption(P.tokens)),
                   !.tokens = <<>>]
    ELSE P

\* the letters up to the first other character taken as one option
RECURSIVE parseFlagsAsOneKey(_)
parseFlagsAsOneKey(P) ==
    IF P.ptr < Len(P.raw) /\ parserNext(P, 0) \in Alpha \cup {"_"}
    THEN parseFlagsAsOneKey(
             [pop(P) EXCEPT !.tokens = Append(@, parserNext(P, 0))])
    ELSE IF P.tokens # <<>>
    THEN [P EXCEPT !.childNodes = Append(@, createOption(P.tokens)),
                   !.tokens = <<>>]
    ELSE P

\* char.match("[%a_]") is a letter or `_`
RECURSIVE parseFlags(_)
parseFlags(P) ==
    IF P.ptr < Len(P.raw)
          /\ parserNext(P, 0) # " "
          /\ parserNext(P, 0) \in Alpha \cup {"_"}
    THEN parseFlags([pop(P) EXCEPT !.childNodes =
                                       Append(@, createOption(<<parserNext(P, 0)>>))])
    ELSE P

\* ------------------------------------------------------------------- state
VARIABLES
    src,             \* ZrTextStream.source
    options,         \* ZrLexer.options
    ptr,             \* ZrTextStream.ptr
    previousTokens,  \* ZrLexer.previousTokens
    currentToken,    \* ZrLexer.currentToken
    scans,           \* per token of previousTokens: where its scan began, ended
    returned,        \* the tokens next() has returned, in order
    last,            \* the last call: its name, the token and the answer it gave
    advanced,        \* the arguments of the stream's next(n) calls made
                     \* directly since its construction or last reset()
    reply,           \* the last direct call on the stream and what it returned
    nodes,           \* the arena of the nodes the factories have created
    outcome,         \* the last call on the node module and what it returned
    parser           \* the CommandAstParser, once constructed

vars == <<src, options, ptr, previousTokens, currentToken, scans, returned, last,
          advanced, reply, nodes, outcome, parser>>

Lexer == [ptr |-> ptr, hist |-> previousTokens, cur |-> currentToken,
          scans |-> scans]

\* the sources built from at most n fragments of a vocabulary
RECURSIVE Sources(_, _)
Sources(vocab, n) ==
    IF n = 0 THEN {<<>>}
    ELSE LET S == Sources(vocab, n - 1)
         IN  S \cup {f \o t : f \in vocab, t \in S}

DEFAULTS ==
    [ParseCommentsAsTokens |-> FALSE, ParseWhitespaceAsTokens |-> FALSE,
     CommandNames |-> {}]

LexerOptions ==
    [ParseCommentsAsTokens : BOOLEAN, ParseWhitespaceAsTokens : BOOLEAN,
     CommandNames : {{}}]

QueryKinds == {"String", "Special"}
QueryKindLists == {<<>>, <<"Operator", "String">>}

Start(sources, optionSets) ==
    /\ src \in sources
    /\ options \in optionSets
    /\ ptr = 0
    /\ previousTokens = <<>>
    /\ currentToken = 0
    /\ scans = <<>>
    /\ returned = <<>>
    /\ last = [op |-> "new", tok |-> 0, is |-> FALSE]
    /\ advanced = <<>>
    /\ reply = [op |-> "new", arg |-> 0, ret |-> ""]
    /\ nodes = <<>>
    /\ outcome = [op |-> "new"]
    /\ parser = [status |-> "none"]

\* the fields after a call that left the lexer as f, and what it returned
Assign(f, op, answer) ==
    /\ ptr' = f.ptr
    /\ previousTokens' = f.hist
    /\ currentToken' = f.cur
    /\ scans' = f.scans
    /\ last' = [op |-> op, tok |-> f.ret, is |-> answer]
    /\ UNCHANGED <<src, options, advanced, reply, nodes, outcome, parser>>

Returning(f) ==
    returned' = IF f.ret # 0 THEN Append(returned, f.ret) ELSE returned

Peek ==
    /\ Assign(peek(src, Lexer, options), "peek", FALSE)
    /\ UNCHANGED returned

NextResult(f) == Assign(f, "next", FALSE) /\ Returning(f)

NextToken == NextResult(next(src, Lexer, options))

QueryResult(f, op) == Assign(f, op, f.is) /\ UNCHANGED returned

IsNextOfKind ==
    \E kind \in QueryKinds :
        QueryResult(isNextOfKind(src, Lexer, options, kind), "isNextOfKind")

IsNextOfAnyKind ==
    \E kinds \in QueryKindLists :
        QueryResult(isNextOfAnyKind(src, Lexer, options, kinds),
                    "isNextOfAnyKind")

Next == Peek \/ NextToken \/ IsNextOfKind \/ IsNextOfAnyKind

\* ZrLexer.reset(): this.stream.reset(), followed once in a behaviour; reply
\* keeps how many tokens next() had returned when it was called
Reset ==
    /\ reply.op # "reset"
    /\ ptr' = 0
    /\ reply' = [op |-> "reset", arg |-> Len(returned), ret |-> ""]
    /\ last' = [op |-> "reset", tok |-> 0, is |-> FALSE]
    /\ UNCHANGED <<src, options, previousTokens, currentToken, scans, returned,
                   advanced, nodes, outcome, parser>>

NextCalls == Peek \/ NextToken \/ Reset

\* ------------------------------------------- direct calls on the stream
lexerFields == <<options, previousTokens, currentToken, scans, returned, last>>

\* next(offset): returns the character at the pointer, then moves the pointer
StreamCallNext ==
    \E offset \in 1..MaxStep :
        /\ ptr + offset <= Len(src) + MaxPast
        /\ reply' = [op |-> "next", arg |-> offset, ret |-> StreamPeek(src, ptr, 0)]
        /\ ptr' = StreamNext(ptr, offset)
        /\ advanced' = Append(advanced, offset)
        /\ UNCHANGED <<src, lexerFields, nodes, outcome, parser>>

StreamCallPeek ==
    \E offset \in 0..MaxOffset :
        /\ reply' = [op |-> "peek", arg |-> offset,
                     ret |-> StreamPeek(src, ptr, offset)]
        /\ UNCHANGED <<src, ptr, advanced, lexerFields, nodes, outcome, parser>>

StreamCallReset ==
    /\ ptr' = 0
    /\ advanced' = <<>>
    /\ reply' = [op |-> "reset", arg |-> 0, ret |-> ""]
    /\ UNCHANGED <<src, lexerFields, nodes, outcome, parser>>

StreamCallHasNext ==
    /\ reply' = [op |-> "hasNext", arg |-> 0, ret |-> StreamHasNext(src, ptr)]
    /\ UNCHANGED <<src, ptr, advanced, lexerFields, nodes, outcome, parser>>

StreamCallGetPtr ==
    /\ reply' = [op |-> "getPtr", arg |-> 0, ret |-> ptr]
    /\ UNCHANGED <<src, ptr, advanced, lexerFields, nodes, outcome, parser>>

NextStream ==
    \/ StreamCallNext
    \/ StreamCallPeek
    \/ StreamCallReset
    \/ StreamCallHasNext
    \/ StreamCallGetPtr

\* ------------------------------------------------- calls on the node module
\* the nodes a node holds in its fields (name holds a node in three kinds)
Held(n) ==
    (UNION {Range(n[f]) :
              f \in {"children", "values", "statements", "parameters"}
                      \cap DOMAIN n}
        \cup {n[f] : f \in {"expression", "command", "option", "declaration",
                            "condition", "thenStatement", "elseStatement",
                            "left", "right", "identifier", "initializer",
                            "statement", "body"} \cap DOMAIN n}
        \cup (IF n.kind \in {"CommandName", "FunctionDeclaration",
                             "PropertyAssignment"}
              THEN {n.name} ELSE {})) \ {0}

\* the nodes no node holds yet: a factory is given such nodes only, so that
\* every node is used as a child at most once
Free == {i \in 1..Len(nodes) : \A j \in 1..Len(nodes) : i \notin Held(nodes[j])}

FreeOf(kinds) == {i \in Free : nodes[i].kind \in kinds}

\* the lists of at most n distinct nodes of S, in the order of creation
RECURSIVE Lists(_, _)
Lists(S, n) ==
    IF n = 0 THEN {<<>>}
    ELSE LET shorter == Lists(S, n - 1)
         IN  shorter \cup
             {Append(x[1], x[2]) :
                 x \in {y \in shorter \X S :
                           y[1] = <<>> \/ y[1][Len(y[1])] < y[2]}}

StatementKinds == {"CommandStatement", "VariableStatement"}
PositionArgs == {<<Undefined, Undefined>>, <<1, 4>>}
VariableMaps ==
    {<<>>} \cup
    {[name \in {<<"x">>} |-> v] :
        v \in {[t |-> "string", s |-> <<"v">>], [t |-> "number", n |-> 12],
               [t |-> "boolean", b |-> TRUE]}}

LeafKinds == {"String", "Identifier", "OptionKey"}

\* a factory call that left the arena as arena and returned its last node
Made(arena) ==
    /\ IF arena[Len(arena)].kind \in LeafKinds
       THEN Cardinality({i \in 1..Len(nodes) : nodes[i].kind \in LeafKinds})
                < MaxLeaves
       ELSE Cardinality({i \in 1..Len(nodes) : nodes[i].kind \notin LeafKinds})
                < MaxComposites
    /\ nodes' = arena
    /\ outcome' = [op |-> "create", ret |-> Len(arena)]
    /\ UNCHANGED <<src, ptr, advanced, reply, lexerFields, parser>>

\* a function call on node that left the arena alone and returned ret
Called(op, node, ret) ==
    /\ outcome' = [op |-> op, node |-> node, ret |-> ret]
    /\ UNCHANGED <<nodes, src, ptr, advanced, reply, lexerFields, parser>>

createInterpolatedString ==
    \E values \in Lists(FreeOf({"String", "Identifier"}), MaxList) :
        Made(setParentOf(
                 Append(nodes, [values |-> values] @@ NodeBase("InterpolatedString")),
                 Range(values)))

createArrayLiteral ==
    \E values \in Lists(Free, MaxList) :
        Made(Append(nodes, [values |-> values] @@ NodeBase("ArrayLiteralExpression")))

createPropertyAssignment ==
    \E name \in FreeOf({"Identifier", "String"}), initializer \in Free :
        /\ name # initializer
        /\ Made(Append(nodes, [name |-> name, initializer |-> initializer]
                                  @@ NodeBase("PropertyAssignment")))

createObjectLiteral ==
    \E values \in Lists(FreeOf({"PropertyAssignment"}), MaxList) :
        Made(Append(nodes, [values |-> values] @@ NodeBase("ObjectLiteralExpression")))

createIfStatement ==
    \E condition \in Free,
       thenStatement \in FreeOf(StatementKinds \cup {"Block"}),
       elseStatement \in FreeOf(StatementKinds \cup {"Block", "IfStatement"})
                             \cup {0} :
        /\ Cardinality({condition, thenStatement, elseStatement}) = 3
        /\ Made(Append(nodes, [condition |-> condition,
                               thenStatement |-> thenStatement,
                               elseStatement |-> elseStatement]
                                  @@ NodeBase("IfStatement")))

createForInStatement ==
    \E initializer \in FreeOf({"Identifier"}), expression \in Free,
       statement \in FreeOf({"Block"}) :
        /\ initializer # expression /\ expression # statement
        /\ Made(Append(nodes, [initializer |-> initializer,
                               expression |-> expression,
                               statement |-> statement]
                                  @@ NodeBase("ForInStatement")))

createBlock ==
    \E statements \in Lists(FreeOf(StatementKinds), MaxList) :
        Made(Append(nodes, [statements |-> statements] @@ NodeBase("Block")))

\* the parameters given are the empty list
createFunctionDeclaration ==
    \E name \in FreeOf({"Identifier"}), body \in FreeOf({"Block"}) :
        Made(Append(nodes, [name |-> name, body |-> body, parameters |-> <<>>]
                               @@ NodeBase("FunctionDeclaration")))

createParenthesizedExpression ==
    \E expression \in Free :
        Made(Append(nodes, [expression |-> expression]
                               @@ NodeBase("ParenthesizedExpression")))

createCommandStatement ==
    \E command \in FreeOf({"CommandName"}), pos \in PositionArgs :
        \E children \in Lists(Free \ {command}, MaxList) :
            Made(setParentOf(
                     Append(nodes, [command |-> command, children |-> children,
                                    startPos |-> pos[1], endPos |-> pos[2]]
                                       @@ NodeBase("CommandStatement")),
                     Range(children)))

createInnerExpression ==
    \E expression \in FreeOf(StatementKinds \cup {"BinaryExpression"}),
       pos \in PositionArgs :
        Made(Append(nodes, [expression |-> expression, startPos |-> pos[1],
                            endPos |-> pos[2]] @@ NodeBase("InnerExpression")))

createCommandSource ==
    \E children \in Lists(Free, MaxList) :
        Made(setParentOf(
                 Append(nodes, [children |-> children] @@ NodeBase("Source")),
                 Range(children)))

\* the quotes field is not set when the argument is omitted
createStringNode ==
    \/ Made(Append(nodes, [text |-> <<"a">>] @@ NodeBase("String")))
    \/ Made(Append(nodes, [text |-> <<"a">>, quotes |-> <<"\"">>]
                              @@ NodeBase("String")))

createCommandName ==
    \E name \in FreeOf({"String"}) :
        Made(Append(nodes, [name |-> name, startPos |-> nodes[name].startPos,
                            endPos |-> nodes[name].endPos]
                               @@ NodeBase("CommandName")))

createIdentifier ==
    Made(Append(nodes, [name |-> <<"x">>] @@ NodeBase("Identifier")))

createOptionKey ==
    \E endPos \in {Undefined, 4} :
        Made(Append(nodes,
                    [flag |-> <<"k">>,
                     startPos |-> IF endPos # Undefined
                                  THEN endPos - Len(<<"k">>) ELSE 0,
                     endPos |-> endPos] @@ NodeBase("OptionKey")))

createOptionExpression ==
    \E option \in FreeOf({"OptionKey"}), expression \in Free :
        /\ option # expression
        /\ Made(Append(nodes, [startPos |-> nodes[option].startPos,
                               endPos |-> nodes[expression].endPos,
                               option |-> option, expression |-> expression]
                                  @@ NodeBase("OptionExpression")))

createVariableDeclaration ==
    \E identifier \in FreeOf({"Identifier"}), expression \in Free :
        /\ identifier # expression
        /\ Made(Append(nodes, [identifier |-> identifier,
                               expression |-> expression]
                                  @@ NodeBase("VariableDeclaration")))

createVariableStatement ==
    \E declaration \in FreeOf({"VariableDeclaration"}) :
        Made(Append(nodes, [declaration |-> declaration]
                               @@ NodeBase("VariableStatement")))

createInvalidNode ==
    \E expression \in Free, pos \in PositionArgs :
        Made(Append(nodes,
                    [expression |-> expression, message |-> <<"e">>,
                     flags |-> ZrNodeFlag.NodeHasError,
                     startPos |-> IF pos[1] # Undefined THEN pos[1]
                                  ELSE nodes[expression].startPos,
                     endPos |-> IF pos[2] # Undefined THEN pos[2]
                                ELSE nodes[expression].endPos]
                        @@ NodeBase("Invalid")))

createBinaryExpression ==
    \E left \in Free, right \in Free, pos \in PositionArgs :
        /\ left < right
        /\ Made(setParentOf(
                    Append(nodes, [left |-> left, operator |-> <<"&", "&">>,
                                   right |-> right, children |-> <<left, right>>,
                                   startPos |-> pos[1], endPos |-> pos[2]]
                                      @@ NodeBase("BinaryExpression")),
                    {left, right}))

\* expr.parent = expression: the parent of the node just created is set
createUnaryExpression ==
    \E expression \in Free, pos \in PositionArgs :
        Made(Append(nodes, [expression |-> expression, operator |-> <<"!">>,
                            parent |-> expression, startPos |-> pos[1],
                            endPos |-> pos[2]] @@ NodeBase("UnaryExpression")))

\* the node returned is not put in the arena
flattenInterpolatedString ==
    \E expression \in 1..Len(nodes), variables \in VariableMaps :
        /\ nodes[expression].kind = "InterpolatedString"
        /\ outcome' = [op |-> "flattenInterpolatedString", node |-> expression,
                       variables |-> variables,
                       ret |-> [text |-> flattenLoop(nodes, nodes[expression].values,
                                                     variables, 1, <<>>),
                                kind |-> "String", flags |-> ZrNodeFlag.None]]
        /\ UNCHANGED <<nodes, src, ptr, advanced, reply, lexerFields, parser>>

OffsetNodePosition ==
    \E node \in 1..Len(nodes) :
        /\ outcome.op # "offsetNodePosition"
        /\ nodes' = offsetNodePosition(nodes, node, 2)
        /\ outcome' = [op |-> "offsetNodePosition", node |-> node,
                       offset |-> 2, before |-> nodes]
        /\ UNCHANGED <<src, ptr, advanced, reply, lexerFields, parser>>

GetNextNode ==
    \E node \in 1..Len(nodes) :
        Called("getNextNode", node, getNextNode(nodes, node))

GetPreviousNode ==
    \E node \in 1..Len(nodes) :
        Called("getPreviousNode", node, getPreviousNode(nodes, node))

\* the factories alone
NextFactories ==
    \/ createStringNode
    \/ createIdentifier
    \/ createOptionKey
    \/ createCommandName
    \/ createInterpolatedString
    \/ createArrayLiteral
    \/ createPropertyAssignment
    \/ createObjectLiteral
    \/ createIfStatement
    \/ createForInStatement
    \/ createBlock
    \/ createFunctionDeclaration
    \/ createParenthesizedExpression
    \/ createCommandStatement
    \/ createInnerExpression
    \/ createCommandSource
    \/ createOptionExpression
    \/ createVariableDeclaration
    \/ createVariableStatement
    \/ createInvalidNode
    \/ createBinaryExpression
    \/ createUnaryExpression

\* the walks over the trees of the factories that set parent links
NextNodes ==
    \/ createStringNode
    \/ createIdentifier
    \/ createCommandName
    \/ createInterpolatedString
    \/ createBlock
    \/ createCommandStatement
    \/ createCommandSource
    \/ createBinaryExpression
    \/ createUnaryExpression
    \/ OffsetNodePosition
    \/ GetNextNode
    \/ GetPreviousNode

\* interpolated strings and their flattening
NextFlatten ==
    \/ createStringNode
    \/ createIdentifier
    \/ createInterpolatedString
    \/ flattenInterpolatedString

\* ----------------------------------------------------- calls on the parser
NewParser ==
    /\ parser.status = "none"
    /\ \E given \in {<<>>, [variables |-> FALSE, options |-> FALSE,
                             operators |-> FALSE]} :
           parser' = CommandAstParser(src, given)
    /\ UNCHANGED <<src, ptr, advanced, reply, lexerFields, nodes, outcome>>

\* the parser after a turn of the loop of Parse that took the branch named
\* and left the parser as Q, or stopped there when Q threw
Turned(Q, branch) ==
    /\ parser' = [Q EXCEPT !.did = branch, !.from = parser.ptr,
                           !.had = Len(parser.childNodes)]
    /\ UNCHANGED <<src, ptr, advanced, reply, lexerFields, nodes, outcome>>

\* a turn of the loop of Parse, while this.ptr < this.raw.size()
ParseLoop ==
    /\ parser.status = "parsing"
    /\ parser.ptr < Len(parser.raw)
    /\ IF parserNext(parser, 0) \in {";", "\n", "\\r"}
       THEN Turned(IF createCommand(parser).status = "threw"
                   THEN createCommand(parser)
                   ELSE pop(createCommand(parser)), "end")
       ELSE IF parserNext(parser, 0) = " "
       THEN Turned(pop(consume(parser)), "space")
       ELSE IF parser.options.variables /\ parserNext(parser, 0) = "$"
       THEN Turned(parseVariable(pop(parser)), "variable")
       ELSE IF nextMatch(parser, <<"&">>, 0) /\ parser.options.operators
       THEN Turned(IF createCommand(pop(parser)).status = "threw"
                   THEN createCommand(pop(parser))
                   ELSE [createCommand(pop(parser)) EXCEPT
                             !.nodes = Append(@, createOperator(<<"&">>))],
                   "operator")
       ELSE IF parser.options.options /\ parserNext(parser, 0) = "-"
                 /\ parserNext(parser, -1) = " " /\ parser.hasCommandName
       THEN IF parserNext(pop(parser), 0) = "-"
            THEN Turned(parseLongKey(pop(pop(parser))), "longKey")
            ELSE Turned(parseFlags(pop(parser)), "flags")
       ELSE IF parserNext(parser, 0) \in {"\"", "'"}
       THEN Turned(consumeStringLiteral(pop(parser), parserNext(parser, 0)),
                   "string")
       ELSE Turned([pop(parser) EXCEPT
                        !.tokens = Append(@, parserNext(parser, 0))], "token")

\* the end of Parse: consume(), createCommand(), return this.nodes
ParseReturn ==
    /\ parser.status = "parsing"
    /\ parser.ptr >= Len(parser.raw)
    /\ parser' = [createCommand(consume(parser)) EXCEPT
                      !.status = IF @ = "threw" THEN @ ELSE "returned",
                      !.did = "return"]
    /\ UNCHANGED <<src, ptr, advanced, reply, lexerFields, nodes, outcome>>

NextParser == NewParser \/ ParseLoop \/ ParseReturn

\* ------------------------------------------------------------ vocabularies
VocabSpans ==
    {<<"-", "-">>, <<"-">>, <<"a">>, <<" ">>, <<"\"">>, <<"&">>, <<"#">>,
     <<":">>}

Init == Start(Sources(VocabSpans, MaxFrags), LexerOptions)

Spec == Init /\ [][Next]_vars

VocabStrings ==
    {<<"\"">>, <<"'">>, <<"$", "a">>, <<"$", "a", "$", "b">>, <<"$">>,
     <<"\\">>, <<"x">>, <<" ">>}

InitStrings == Start(Sources(VocabStrings, MaxFrags), LexerOptions)

SpecStrings == InitStrings /\ [][Next]_vars

VocabFunction ==
    {<<"f", "u", "n", "c", "t", "i", "o", "n">>, <<"x">>, <<" ">>, <<"@">>,
     <<":">>, <<"#">>, <<"\"">>}

InitFunction == Start(Sources(VocabFunction, MaxFrags), LexerOptions)

SpecFunction == InitFunction /\ [][Next]_vars

VocabNewlines ==
    {<<"\n">>, <<"#">>, <<" ">>, <<"x">>, <<"\"">>, <<"\\">>, <<";">>}

InitNewlines == Start(Sources(VocabNewlines, MaxFrags), LexerOptions)

SpecNewlines == InitNewlines /\ [][Next]_vars

InitNumbers == Start(Sources(
        {<<"1">>, <<"1", ".", "0">>, <<".">>, <<"_">>, <<"$", "a">>, <<"$">>,
        <<".", "b">>, <<".", "0">>, <<" ">>},
        MaxFrags), LexerOptions)

SpecNumbers == InitNumbers /\ [][Next]_vars

InitWords == Start(Sources(
        {<<"i", "f">>, <<"t", "r", "u", "e">>, <<"f", "a", "l", "s", "e">>,
        <<"f", "u", "n", "c", "t", "i", "o", "n">>, <<"x">>, <<"&">>, <<";">>,
        <<"(">>, <<"\"">>, <<" ">>},
        MaxFrags), LexerOptions)

SpecWords == InitWords /\ [][Next]_vars

InitStream == Start(Sources(
        {<<"a">>, <<"b">>, <<"c">>},
        MaxFrags), {DEFAULTS})

SpecStream == InitStream /\ [][NextStream]_vars

InitNodes == Start({<<>>}, {DEFAULTS})

SpecFactories == InitNodes /\ [][NextFactories]_vars

SpecNodes == InitNodes /\ [][NextNodes]_vars

SpecFlatten == InitNodes /\ [][NextFlatten]_vars

\* sources of pipeline and logical operators
SpecOperators ==
    Start(Sources(
           {<<"&", "&">>, <<"|">>, <<"|", "|">>, <<"x">>, <<" ">>},
           MaxFrags), LexerOptions)
        /\ [][Next]_vars

\* lexers that are reset
SpecCalls ==
    Start(Sources({<<"a">>, <<"b">>, <<" ">>, <<":">>, <<"#">>, <<"\"">>},
                  MaxFrags), LexerOptions)
        /\ [][NextCalls]_vars

\* lexers that are given command names
CommandNameSets == {{}, {<<"x">>}}

SpecCommandNames ==
    Start(Sources(
           {<<"x">>, <<"y">>, <<" ">>, <<"\"">>, <<"(">>, <<"#">>, <<"\n">>},
           MaxFrags),
          [ParseCommentsAsTokens : BOOLEAN, ParseWhitespaceAsTokens : BOOLEAN,
           CommandNames : CommandNameSets])
        /\ [][Next]_vars

\* command lines with options, variables and strings
SpecParser ==
    Start(Sources(
           {<<"c", " ">>, <<"a">>, <<"1">>, <<" ">>, <<"-">>, <<"-", "k">>, <<"E">>,
            <<"_">>, <<"-", "-">>, <<"$">>, <<";">>, <<"\"">>},
           MaxFrags), {DEFAULTS})
        /\ [][NextParser]_vars

\* command lines joined by operators or broken over lines
SpecPipelines ==
    Start(Sources(
           {<<"c", " ", "a">>, <<"c">>, <<"b">>, <<" ">>, <<"&", "&">>,
            <<" ", "&", "&", " ">>, <<"&">>, <<"\\", "\n">>, <<"\\">>, <<"\n">>},
           MaxFrags), {DEFAULTS})
        /\ [][NextParser]_vars

\* ================================================================== claims
Scanned == 1..Len(previousTokens)

\* the text the scan of token i consumed
ScannedText(i) == Sub(src, scans[i].begin, scans[i].end - 1)

\* C1: every token the lexer has emitted satisfies
\* 0 <= startPos <= endPos <= |source|, Option tokens with an empty name,
\* quoted strings, operators and comments included.
C1_SpanWithinSource ==
    \A i \in Scanned :
        LET t == previousTokens[i]
        IN  0 <= t.startPos /\ t.startPos <= t.endPos /\ t.endPos <= Len(src)

\* C2: for every emitted token that is neither a Comment nor a Whitespace
\* token, the substring source[startPos..endPos] (inclusive) is exactly the
\* text that was scanned to produce the token.
C2_RoundTripFromSpan ==
    \A i \in Scanned :
        LET t == previousTokens[i]
        IN  t.kind \notin {"Comment", "Whitespace"}
                => Sub(src, t.startPos, t.endPos) = ScannedText(i)

\* C3: for every emitted token, startPos is the stream pointer when the scan
\* of the token began and endPos is the stream pointer minus 1 when the scan
\* finished; an Operator token's span covers its whole run.
C3_SpanIsScanRange ==
    \A i \in Scanned :
        LET t == previousTokens[i]
        IN  /\ t.startPos = scans[i].begin
            /\ t.endPos = scans[i].end - 1
            /\ t.kind = "Operator" => t.endPos - t.startPos + 1 = Len(t.value)

\* ------------------------------------------------- quoted strings: C4, C7
Quoted(i) == "quotes" \in DOMAIN previousTokens[i]

\* the number of consecutive backslashes right before position q, counted
\* back to (not including) position lo
RECURSIVE BackslashRun(_, _, _)
BackslashRun(s, q, lo) ==
    IF q - 1 > lo /\ s[q] = "\\" THEN 1 + BackslashRun(s, q - 1, lo) ELSE 0

\* position q of a string opened at position lo holds an unescaped character
Unescaped(s, q, lo) == BackslashRun(s, q, lo) % 2 = 0

\* an unescaped `$` lies inside the quotes of token i
DollarInside(i) ==
    \E q \in (scans[i].begin + 1)..(scans[i].end - 1) :
        src[q + 1] = "$" /\ Unescaped(src, q, scans[i].begin)

\* an unescaped quote matching the opening quote of token i lies after it
HasClosingQuote(i) ==
    \E q \in (scans[i].begin + 1)..(Len(src) - 1) :
        src[q + 1] = src[scans[i].begin + 1] /\ Unescaped(src, q, scans[i].begin)

\* C4: a quoted string is an InterpolatedString token (with the Interpolated
\* flag) exactly when an unescaped `$` occurred inside its quotes, otherwise
\* a String token; an InterpolatedString token has
\* |variables| <= |values| <= |variables| + 1.
C4_InterpolatedShape ==
    \A i \in Scanned :
        Quoted(i) =>
            LET t == previousTokens[i]
            IN  /\ t.kind \in {"String", "InterpolatedString"}
                /\ (t.kind = "InterpolatedString") <=> DollarInside(i)
                /\ t.kind = "InterpolatedString" =>
                       /\ Len(t.variables) <= Len(t.values)
                       /\ Len(t.values) <= Len(t.variables) + 1
                       /\ "Interpolated" \in t.flags
                /\ t.kind = "String" => "Interpolated" \notin t.flags

\* a closed string with two adjacent variables and no text chunk of its own
C4_Witness ==
    \E i \in Scanned :
        /\ Quoted(i)
        /\ previousTokens[i].kind = "InterpolatedString"
        /\ Len(previousTokens[i].variables) = 2
        /\ previousTokens[i].values = <<<<>>, <<>>>>
        /\ "UnterminatedString" \notin previousTokens[i].flags

\* C7: a quoted-string token (String or InterpolatedString) carries the
\* UnterminatedString flag and closed = false exactly when the input ended
\* before an unescaped matching closing quote; a token whose closing quote
\* was found has closed = true and no UnterminatedString flag; an
\* unterminated string token is the last token of the stream.
C7_UnterminatedExactly ==
    \A i \in Scanned :
        Quoted(i) =>
            LET t == previousTokens[i]
            IN  /\ "closed" \in DOMAIN t
                /\ ("UnterminatedString" \in t.flags /\ t.closed = FALSE)
                       <=> ~HasClosingQuote(i)
                /\ HasClosingQuote(i) =>
                       t.closed = TRUE /\ "UnterminatedString" \notin t.flags
                /\ "UnterminatedString" \in t.flags =>
                       i = Len(previousTokens) /\ ~StreamHasNext(src, ptr)

\* ------------------------------------------------------------- labels: C8
IsColon(i) ==
    previousTokens[i].kind = "Special" /\ previousTokens[i].value = <<":">>

\* the nearest non-Whitespace token before token i, 0 when there is none
NearestBefore(i) ==
    LET J == {j \in 1..(i - 1) : previousTokens[j].kind # "Whitespace"}
    IN  IF J = {} THEN 0 ELSE CHOOSE j \in J : \A k \in J : k <= j

\* C8: whenever a `:` Special token was scanned after at least one
\* non-Whitespace token, the Label flag is set on the nearest preceding
\* non-Whitespace token, wherever that token is in the history (the very
\* first token included), and on no other token.
C8_LabelOnPrevious ==
    \A j \in Scanned :
        "Label" \in previousTokens[j].flags
            <=> \E i \in Scanned : IsColon(i) /\ NearestBefore(i) = j

\* ----------------------------------------------------- function names: C9
FunctionKeyword(i) ==
    /\ previousTokens[i].kind = "Keyword"
    /\ previousTokens[i].value = <<"f", "u", "n", "c", "t", "i", "o", "n">>

\* token i was scanned by readLiteralString and is no keyword or boolean
Bareword(i) ==
    /\ previousTokens[i].kind \in {"String", "Identifier"}
    /\ src[scans[i].begin + 1] \in LiteralChars \ {"$"}

\* C9: with default LexerOptions, a bareword that is the token immediately
\* following the `function` Keyword token is an Identifier token with the
\* FunctionName flag, and no bareword in another position has the flag.
C9_FunctionNameAfterKeyword ==
    options = DEFAULTS =>
        \A i \in Scanned :
            Bareword(i) =>
                ((i > 1 /\ FunctionKeyword(i - 1))
                    <=> (/\ previousTokens[i].kind = "Identifier"
                         /\ "FunctionName" \in previousTokens[i].flags))

\* --------------------------------------------------------- newlines: C10
InsideQuoted(q) ==
    \E i \in Scanned : Quoted(i) /\ scans[i].begin < q /\ q < scans[i].end

NewlineTokensAt(q) ==
    {i \in Scanned :
        /\ previousTokens[i].kind = "EndOfStatement"
        /\ previousTokens[i].value = <<"\n">>
        /\ previousTokens[i].startPos = q}

\* C10: every newline of the source the lexer has passed that is not inside
\* a quoted string has produced exactly one EndOfStatement token with value
\* "\n" (also when it ends a `#` comment), and no Whitespace token has a
\* newline as its value, whatever the options.
C10_NewlineIsEndOfStatement ==
    /\ \A q \in 0..(ptr - 1) :
           (q < Len(src) /\ src[q + 1] = "\n" /\ ~InsideQuoted(q))
               => Cardinality(NewlineTokensAt(q)) = 1
    /\ \A i \in Scanned :
           previousTokens[i].kind = "Whitespace"
               => previousTokens[i].value # <<"\n">>

\* a discarded comment ended by a newline whose EndOfStatement token is the
\* first token of the history
C10_Witness ==
    /\ ~options.ParseCommentsAsTokens
    /\ Len(src) >= 2 /\ src[1] = "#"
    /\ previousTokens # <<>>
    /\ previousTokens[1].kind = "EndOfStatement"
    /\ previousTokens[1].value = <<"\n">>
    /\ previousTokens[1].startPos > 0

\* ------------------------------------------------------- peek and next: C5
\* the lexer state after k next() calls and no other call
RECURSIVE PureRun(_, _, _)
PureRun(s, opts, k) ==
    IF k = 0 THEN [ptr |-> 0, hist |-> <<>>, cur |-> 0, scans |-> <<>>]
    ELSE LET f == next(s, PureRun(s, opts, k - 1), opts)
         IN  [ptr |-> f.ptr, hist |-> f.hist, cur |-> f.cur, scans |-> f.scans]

Peeking == {"peek", "isNextOfKind", "isNextOfAnyKind"}

\* C5: peek() is idempotent and non-consuming: consecutive peek() calls
\* return the same token and leave the pointer where the first one left it,
\* the next() that follows returns that token, and the tokens next() returns
\* are those of a run of next() calls alone, whatever peek(), isNextOfKind()
\* and isNextOfAnyKind() calls come between them.
C5_PeekIdempotent ==
    /\ [][/\ (currentToken # 0 /\ last'.op \in Peeking)
                => /\ last'.tok = currentToken
                   /\ ptr' = ptr
                   /\ currentToken' = currentToken
                   /\ previousTokens' = previousTokens
          /\ (last.op = "peek" /\ last'.op = "peek")
                => last'.tok = last.tok /\ ptr' = ptr
          /\ (last.op = "peek" /\ last'.op = "next")
                => /\ last'.tok = last.tok
                   /\ ptr' = ptr
                   /\ previousTokens' = previousTokens]_vars
    /\ [](/\ previousTokens = PureRun(src, options, Len(previousTokens)).hist
          /\ returned = [i \in 1..Len(returned) |-> i]
          /\ Len(returned) =
                 Len(previousTokens) - (IF currentToken # 0 THEN 1 ELSE 0))

\* a token has been returned by next() and the one after it was peeked twice
C5_Witness ==
    /\ last.op = "peek"
    /\ last.tok # 0
    /\ currentToken = last.tok
    /\ Len(returned) = 1
    /\ Len(previousTokens) = 2

\* ---------------------------------------------------------- progress: C6
StrayStart(i) == src[scans[i].begin + 1] \in Stray

\* C6 as stated: every next() call that scans and returns a token has
\* advanced the pointer by at least one character, at most |source| tokens
\* are scanned and next() returns undefined once the source is exhausted,
\* and a character matching no other rule is consumed into a bareword String
\* token.
C6_NextAdvancesAndStrayIsString ==
    /\ \A i \in Scanned :
           /\ scans[i].end >= scans[i].begin + 1
           /\ scans[i].end <= Len(src)
           /\ i > 1 => scans[i].begin >= scans[i - 1].end
    /\ LET f == next(src, Lexer, options)
       IN  (f.ret # 0 /\ currentToken = 0) => f.ptr >= ptr + 1
    /\ Len(previousTokens) <= Len(src)
    /\ ptr <= Len(src)
    /\ (~StreamHasNext(src, ptr) /\ currentToken = 0)
           => next(src, Lexer, options).ret = 0
    /\ \A i \in Scanned :
           StrayStart(i) =>
               /\ previousTokens[i].kind = "String"
               /\ "quotes" \notin DOMAIN previousTokens[i]
               /\ previousTokens[i].value = ScannedText(i)

\* C6 amended: as stated, except that the character matching no other rule
\* is consumed by readLiteralString into a bareword token that is a String
\* token, or an Identifier token with the FunctionName flag when the token
\* two back in the history is the `function` keyword (a next() that returns
\* a token already peeked leaves the pointer where the peek left it).
C6_ScanAdvancesAndStrayIsBareword ==
    /\ \A i \in Scanned :
           /\ scans[i].end >= scans[i].begin + 1
           /\ scans[i].end <= Len(src)
           /\ i > 1 => scans[i].begin >= scans[i - 1].end
    /\ LET f == next(src, Lexer, options)
       IN  /\ (f.ret # 0 /\ currentToken = 0) => f.ptr >= ptr + 1
           /\ (f.ret # 0 /\ currentToken # 0) => f.ptr = ptr
    /\ Len(previousTokens) <= Len(src)
    /\ ptr <= Len(src)
    /\ (~StreamHasNext(src, ptr) /\ currentToken = 0)
           => next(src, Lexer, options).ret = 0
    /\ \A i \in Scanned :
           StrayStart(i) =>
               /\ previousTokens[i].value = ScannedText(i)
               /\ IF i > 2 /\ FunctionKeyword(i - 2)
                  THEN /\ previousTokens[i].kind = "Identifier"
                       /\ "FunctionName" \in previousTokens[i].flags
                  ELSE /\ previousTokens[i].kind = "String"
                       /\ "quotes" \notin DOMAIN previousTokens[i]
                       /\ previousTokens[i].closed = TRUE

\* the source is exhausted, next() has returned undefined, and a stray
\* character in the function-name position became an Identifier token
C6_Witness ==
    /\ last.op = "next"
    /\ last.tok = 0
    /\ ~StreamHasNext(src, ptr)
    /\ \E i \in Scanned :
           StrayStart(i) /\ previousTokens[i].kind = "Identifier"

\* ---------------------------------------------------------- options: C11
\* the scan of token i began at a dash followed by a dash
DashDashStart(i) ==
    /\ StreamPeek(src, scans[i].begin, 0) = "-"
    /\ StreamPeek(src, scans[i].begin, 1) = "-"

OptionNameChar == Digit \cup Alpha \cup {"_", "-"}

\* the text of the maximal run of option-name characters from pointer p on
RECURSIVE MaximalOptionRun(_, _)
MaximalOptionRun(s, p) ==
    IF p < Len(s) /\ s[p + 1] \in OptionNameChar
    THEN <<s[p + 1]>> \o MaximalOptionRun(s, p + 1)
    ELSE <<>>

\* C11: whenever the lexer starts a token at `--` it emits an Option token
\* with prefix "--" whose value is the maximal following run of characters
\* in [A-Za-z0-9_-] and is non-empty; a `-` not immediately followed by `-`
\* never starts an Option token, it starts an Operator token.
C11_OptionAfterDashDash ==
    \A i \in Scanned :
        LET t == previousTokens[i]
        IN  /\ DashDashStart(i) =>
                /\ t.kind = "Option"
                /\ t.prefix = <<"-", "-">>
                /\ t.value = MaximalOptionRun(src, scans[i].begin + 2)
                /\ t.value # <<>>
            /\ (StreamPeek(src, scans[i].begin, 0) = "-" /\ ~DashDashStart(i))
                   => t.kind = "Operator"
            /\ t.kind = "Option" => DashDashStart(i)

\* ---------------------------------------------------------- numbers: C12
\* C12: every Number token starts with a digit and its rawText consists only
\* of digits and at most one `.` (never `_`, never a second `.`); the scan
\* stops before a second `.`, which then starts a separate token.
C12_NumberShape ==
    \A i \in Scanned :
        LET t == previousTokens[i]
            stop == StreamPeek(src, scans[i].end, 0)
        IN  t.kind = "Number" =>
                /\ t.rawText = ScannedText(i)
                /\ t.rawText # <<>>
                /\ t.rawText[1] \in Digit
                /\ \A k \in 1..Len(t.rawText) : t.rawText[k] \in Digit \cup {"."}
                /\ Cardinality({k \in 1..Len(t.rawText) : t.rawText[k] = "."}) <= 1
                /\ stop \notin Digit
                /\ stop = "." =>
                       /\ \E k \in 1..Len(t.rawText) : t.rawText[k] = "."
                       /\ i < Len(previousTokens) =>
                              /\ scans[i + 1].begin = scans[i].end
                              /\ previousTokens[i + 1].kind = "Special"
                              /\ previousTokens[i + 1].value = <<".">>

\* a decimal number was cut at a second `.`, which became the next token
C12_Witness ==
    \E i \in Scanned :
        /\ previousTokens[i].kind = "Number"
        /\ previousTokens[i].rawText = <<"1", ".", "0">>
        /\ i < Len(previousTokens)
        /\ scans[i + 1].begin = scans[i].end
        /\ previousTokens[i + 1].kind = "Special"
        /\ previousTokens[i + 1].value = <<".">>

\* -------------------------------------------------------- variables: C13
IdentifierChar == Digit \cup Alpha \cup {"_"}

\* w is a non-empty run of [A-Za-z0-9_]
IdentifierRun(w) ==
    w # <<>> /\ \A k \in 1..Len(w) : w[k] \in IdentifierChar

\* the text `$value.p1.p2...` of a variable token
RECURSIVE DottedTail(_)
DottedTail(properties) ==
    IF properties = <<>> THEN <<>>
    ELSE <<".">> \o Head(properties) \o DottedTail(Tail(properties))

\* C13: a token starting at `$` is a PropertyAccess token exactly when the
\* identifier run is followed by at least one `.`, otherwise an Identifier
\* token; its value is a non-empty run of [A-Za-z0-9_], its properties hold
\* the `.`-separated segments in source order, each a non-empty identifier
\* run (numeric segments accepted), and its span covers the `$` and every
\* property tail.
C13_VariableShape ==
    \A i \in Scanned :
        LET t == previousTokens[i]
            b == scans[i].begin
            afterId == b + 1 + Len(t.value)
        IN  StreamPeek(src, b, 0) = "$" =>
                /\ t.kind \in {"PropertyAccess", "Identifier"}
                /\ IdentifierRun(t.value)
                /\ t.value = Sub(src, b + 1, afterId - 1)
                /\ StreamPeek(src, afterId, 0) \notin IdentifierChar
                /\ t.kind = "PropertyAccess" <=> StreamPeek(src, afterId, 0) = "."
                /\ t.kind = "PropertyAccess" =>
                       /\ t.properties # <<>>
                       /\ \A k \in 1..Len(t.properties) :
                              IdentifierRun(t.properties[k])
                       /\ ScannedText(i) =
                              <<"$">> \o t.value \o DottedTail(t.properties)
                /\ t.kind = "Identifier" => ScannedText(i) = <<"$">> \o t.value
                /\ t.startPos = b
                /\ t.endPos = scans[i].end - 1
                /\ StreamPeek(src, scans[i].end, 0) \notin IdentifierChar \cup {"."}

\* --------------------------------------------------------- barewords: C14
\* the scan of token i began at a character that starts a bareword
LiteralStart(i) == src[scans[i].begin + 1] \in Alpha \cup Stray \cup {"_"}

\* the characters a bareword stops before
BarewordStop == Space \cup {";"} \cup Grammar.Punctuation \cup {"\"", "'"}

\* the text from pointer p up to the next stop character
RECURSIVE BarewordRun(_, _)
BarewordRun(s, p) ==
    IF p < Len(s) /\ s[p + 1] \notin BarewordStop
    THEN <<s[p + 1]>> \o BarewordRun(s, p + 1)
    ELSE <<>>

\* token i stands where a function name is looked for: right after the
\* `function` keyword, or two tokens after it
FunctionNamePosition(i) ==
    \/ NearestBefore(i) # 0 /\ FunctionKeyword(NearestBefore(i))
    \/ i > 1 /\ FunctionKeyword(i - 1)
    \/ i > 2 /\ FunctionKeyword(i - 2)

RECURSIVE SumOf(_)
SumOf(ns) == IF ns = <<>> THEN 0 ELSE Head(ns) + SumOf(Tail(ns))

\* C15: after any sequence of next(n), peek(k), hasNext(), getPtr() and
\* reset() calls on the text stream, the pointer equals the sum of the n
\* arguments of the next calls made since the last reset (0 right after
\* reset or construction); peek, hasNext and getPtr never change the
\* pointer; peek(k) returns the character at ptr + k, or the empty string
\* when ptr + k is at or past the end; hasNext() is true iff ptr < |source|.
C15_StreamPointer ==
    /\ [][reply'.op \in {"peek", "hasNext", "getPtr"} => ptr' = ptr]_vars
    /\ [](/\ ptr = SumOf(advanced)
          /\ reply.op \in {"new", "reset"} => ptr = 0
          /\ reply.op = "peek" =>
                 reply.ret = IF ptr + reply.arg >= Len(src) THEN ""
                             ELSE src[ptr + reply.arg + 1]
          /\ reply.op = "hasNext" => (reply.ret <=> ptr < Len(src))
          /\ reply.op = "getPtr" => reply.ret = ptr)

\* after two next calls that left the pointer inside the text, a peek that
\* looks at or past the end has returned the empty string
C15_Witness ==
    /\ reply.op = "peek"
    /\ Len(advanced) = 2
    /\ ptr < Len(src)
    /\ ptr + reply.arg >= Len(src)
    /\ reply.ret = ""

\* ------------------------------------------------------ parent links: C16
\* the kinds of the nodes the composite factories build
CompositeKinds ==
    {"InterpolatedString", "CommandStatement", "Source", "BinaryExpression",
     "UnaryExpression", "ArrayLiteralExpression", "ObjectLiteralExpression",
     "Block", "IfStatement", "ForInStatement", "FunctionDeclaration",
     "VariableDeclaration", "VariableStatement", "OptionExpression",
     "InnerExpression", "ParenthesizedExpression", "Invalid"}

AllNodes == 1..Len(nodes)

\* C16: every factory that builds a composite node sets parent to the newly
\* created node on each child node it is given (createInterpolatedString,
\* createCommandStatement, createCommandSource, createBinaryExpression,
\* createUnaryExpression, createArrayLiteral, createObjectLiteral,
\* createBlock, createIfStatement, createForInStatement,
\* createFunctionDeclaration, createVariableDeclaration,
\* createVariableStatement, createOptionExpression, createInnerExpression,
\* createParenthesizedExpression and createInvalidNode).
C16_FactoriesSetParent ==
    \A p \in AllNodes :
        nodes[p].kind \in CompositeKinds =>
            \A c \in Held(nodes[p]) : nodes[c].parent = p

\* ------------------------------------------------------------- trees: C17
\* the nodes below node i of an arena
RECURSIVE Descendants(_, _)
Descendants(arena, i) ==
    Held(arena[i]) \cup UNION {Descendants(arena, c) : c \in Held(arena[i])}

\* the nodes met by following at most k parent links from node i
RECURSIVE Ancestors(_, _)
Ancestors(i, k) ==
    IF k = 0 \/ nodes[i].parent = 0 THEN {}
    ELSE {nodes[i].parent} \cup Ancestors(nodes[i].parent, k - 1)

\* C17: after any sequence of factory calls that uses each node as a child
\* at most once, the parent links form a tree: whenever n.parent = p, n is
\* one of p's owned children, no node is reachable from itself by following
\* parent links, and no node has one of its own descendants as its parent.
C17_ParentLinksFormTree ==
    \A n \in AllNodes :
        /\ nodes[n].parent # 0 => n \in Held(nodes[nodes[n].parent])
        /\ n \notin Ancestors(n, Len(nodes))
        /\ nodes[n].parent \notin Descendants(nodes, n)

\* ----------------------------------------------------------- flatten: C18
\* the string form of the value a variable map gives a name
Shown(variables, name) ==
    IF name \notin DOMAIN variables THEN <<"n", "i", "l">>
    ELSE IF variables[name].t = "string" THEN variables[name].s
    ELSE IF variables[name].t = "number" /\ variables[name].n = 12
    THEN <<"1", "2">>
    ELSE IF variables[name].t = "boolean" /\ variables[name].b
    THEN <<"t", "r", "u", "e">>
    ELSE <<"?">>

\* the text of chunk c of an interpolated string under a variable map
ChunkText(c, variables) ==
    IF nodes[c].kind = "Identifier" THEN Shown(variables, nodes[c].name)
    ELSE nodes[c].text

RECURSIVE Concatenated(_, _)
Concatenated(values, variables) ==
    IF values = <<>> THEN <<>>
    ELSE ChunkText(Head(values), variables)
             \o Concatenated(Tail(values), variables)

\* C18: flattenInterpolatedString(expr, vars) returns a String node whose
\* text is the concatenation, in the order of expr.values, of each String
\* chunk's text and, for each Identifier chunk, tostring(vars[name]); the
\* result has flags 0 and no quotes, and the call leaves expr, its values
\* and vars unchanged.
C18_FlattenConcatenates ==
    /\ [][outcome'.op = "flattenInterpolatedString" => nodes' = nodes]_vars
    /\ [](outcome.op = "flattenInterpolatedString" =>
              /\ outcome.ret.kind = "String"
              /\ outcome.ret.text =
                     Concatenated(nodes[outcome.node].values, outcome.variables)
              /\ outcome.ret.flags = {}
              /\ "quotes" \notin DOMAIN outcome.ret)

\* a quoted String chunk followed by an Identifier chunk whose variable is a
\* number has been flattened
C18_Witness ==
    /\ outcome.op = "flattenInterpolatedString"
    /\ Len(nodes[outcome.node].values) = 2
    /\ nodes[nodes[outcome.node].values[1]].kind = "String"
    /\ "quotes" \in DOMAIN nodes[nodes[outcome.node].values[1]]
    /\ nodes[nodes[outcome.node].values[2]].kind = "Identifier"
    /\ outcome.variables # <<>>
    /\ outcome.variables[<<"x">>].t = "number"
    /\ outcome.ret.text = <<"a", "1", "2">>

\* ------------------------------------------------------------ offset: C19
\* C19: offsetNodePosition(node, delta) adds delta to the startPos and endPos
\* of node and of every descendant of node that has positions set, whatever
\* field holds the descendant, and changes nothing else.
C19_OffsetShiftsSubtree ==
    outcome.op = "offsetNodePosition" =>
        /\ Len(nodes) = Len(outcome.before)
        /\ \A i \in AllNodes :
               LET old == outcome.before[i]
                   shift(pos) == IF pos = Undefined THEN Undefined
                                 ELSE pos + outcome.offset
               IN  IF i \in {outcome.node}
                              \cup Descendants(outcome.before, outcome.node)
                   THEN nodes[i] = [old EXCEPT !.startPos = shift(@),
                                               !.endPos = shift(@)]
                   ELSE nodes[i] = old

\* ---------------------------------------------------------- siblings: C20
\* the sibling list of a parent node
SiblingList(p) ==
    IF "children" \in DOMAIN p THEN p.children
    ELSE IF "values" \in DOMAIN p THEN p.values
    ELSE IF "statements" \in DOMAIN p THEN p.statements
    ELSE <<>>

\* the sibling at distance d of node n, 0 when there is none
Sibling(n, d) ==
    IF nodes[n].parent = 0 THEN 0
    ELSE LET list == SiblingList(nodes[nodes[n].parent])
             I == {i \in 1..Len(list) : list[i] = n}
         IN  IF I = {} THEN 0
             ELSE LET i == CHOOSE i \in I : TRUE
                  IN  IF i + d \in 1..Len(list) THEN list[i + d] ELSE 0

\* C20: for a node that is element i of its parent's sibling list (the
\* parent's children, values or statements), getNextNode returns element
\* i + 1 and getPreviousNode returns element i - 1, each returning undefined
\* when that index is out of range or when the node has no parent or is not
\* in the parent's list; hence getPreviousNode(getNextNode(n)) = n whenever
\* n is not the last sibling.
C20_SiblingWalk ==
    /\ outcome.op = "getNextNode" => outcome.ret = Sibling(outcome.node, 1)
    /\ outcome.op = "getPreviousNode" => outcome.ret = Sibling(outcome.node, -1)
    /\ \A n \in AllNodes :
           Sibling(n, 1) # 0 =>
               /\ getNextNode(nodes, n) # 0
               /\ getPreviousNode(nodes, getNextNode(nodes, n)) = n

\* ============================================================ the grammar
\* Grammar.OperatorPrecedence; an operator is the sequence of its characters
OperatorPrecedence ==
    (<<"!">> :> 1) @@ (<<"=">> :> 1) @@ (<<"+", "=">> :> 1)
        @@ (<<"-", "=">> :> 1) @@ (<<"|">> :> 2) @@ (<<"|", "|">> :> 2)
        @@ (<<"&", "&">> :> 3) @@ (<<"<">> :> 7) @@ (<<">">> :> 7)
        @@ (<<">", "=">> :> 7) @@ (<<"<", "=">> :> 7) @@ (<<"=", "=">> :> 7)
        @@ (<<"!", "=">> :> 7) @@ (<<"+">> :> 10) @@ (<<"-">> :> 10)
        @@ (<<"*">> :> 20) @@ (<<"/">> :> 20) @@ (<<"%">> :> 20)

\* the Operator tokens scanned so far whose value is the operator op
OperatorTokens(op) ==
    {i \in 1..Len(previousTokens) :
        previousTokens[i].kind = "Operator" /\ previousTokens[i].value = op}

\* C21: the table orders the pipeline and logical operators strictly: for
\* the Operator tokens of a source, an `&&` has a higher precedence than a
\* `|`, and a `|` has a higher precedence than a `||`.
C21_PipelineOperatorsStrictlyOrdered ==
    /\ \A a \in OperatorTokens(<<"&", "&">>), b \in OperatorTokens(<<"|">>) :
           OperatorPrecedence[previousTokens[a].value]
               > OperatorPrecedence[previousTokens[b].value]
    /\ \A b \in OperatorTokens(<<"|">>), c \in OperatorTokens(<<"|", "|">>) :
           OperatorPrecedence[previousTokens[b].value]
               > OperatorPrecedence[previousTokens[c].value]

\* ================================================================= parser
\* C22: Parse returns a result for every input: no turn of its loop and no
\* step of its end raises an error.
C22_ParseAlwaysReturns == parser.status # "threw"

\* a turn of the loop has just run from a `-` that follows a space after
\* the command name and is followed by a letter, with options enabled
FlagClusterTurn ==
    /\ parser.status # "none"
    /\ parser.did \notin {"new", "return"}
    /\ parser.options.options
    /\ parser.hasCommandName
    /\ StreamPeek(parser.raw, parser.from, 0) = "-"
    /\ StreamPeek(parser.raw, parser.from, -1) = " "
    /\ StreamPeek(parser.raw, parser.from, 1) \in Alpha

\* the nodes the turn has added to the statement
AddedNodes ==
    SubSeq(parser.childNodes, parser.had + 1, Len(parser.childNodes))

\* C23: a single-dash letter cluster after the command name gives one
\* option node per letter, in source order, each with a flag of exactly one
\* character, and nothing else when the cluster ends the word; no node it
\* gives has a longer flag.
C23_FlagClusterOnePerLetter ==
    FlagClusterTurn =>
        LET first == parser.from + 1
            end == readWhile(parser.raw, first, Alpha)
        IN  /\ \A i \in 1..Len(AddedNodes) :
                   /\ AddedNodes[i].kind = "Option"
                   /\ Len(AddedNodes[i].flag) = 1
            /\ Len(AddedNodes) >= end - first
            /\ \A i \in 1..(end - first) :
                   AddedNodes[i].flag = <<parser.raw[first + i]>>
            /\ (end = Len(parser.raw) \/ parser.raw[end + 1] = " ")
                   => Len(AddedNodes) = end - first

\* a cluster of two letters has been split
C23_Witness ==
    /\ FlagClusterTurn
    /\ readWhile(parser.raw, parser.from + 1, Alpha) = Len(parser.raw)
    /\ Len(AddedNodes) >= 2

\* the nodes of the kind among the nodes Parse returned
ReturnedOfKind(kind) ==
    {i \in 1..Len(parser.nodes) : parser.nodes[i].kind = kind}

\* the text has the form <command> && <command>: an `&&` once, with a
\* space and a word on each side, and no statement end
JoinedByAnd ==
    /\ parser.status = "returned"
    /\ parser.options.operators
    /\ \E p \in 2..(Len(parser.raw) - 3) :
           /\ SubSeq(parser.raw, p, p + 3) = <<" ", "&", "&", " ">>
           /\ \A q \in 1..Len(parser.raw) :
                  /\ parser.raw[q] = "&" => q \in {p + 1, p + 2}
                  /\ parser.raw[q] \in Alpha \cup {" ", "&"}

\* C24: two commands joined by `&&` give one BinaryExpression with the
\* operator `&&`, the command before it as left and the command after it as
\* right; the commands are not top-level nodes and the operator appears once.
C24_AndJoinsIntoBinaryExpression ==
    JoinedByAnd =>
        /\ Len(parser.nodes) = 1
        /\ parser.nodes[1].kind = "BinaryExpression"
        /\ parser.nodes[1].operator = <<"&", "&">>
        /\ parser.nodes[1].left.kind = "CommandStatement"
        /\ parser.nodes[1].right.kind = "CommandStatement"
        /\ ReturnedOfKind("CommandStatement") = {}
        /\ ReturnedOfKind("Operator") = {}

\* the text is one command line broken once by a backslash and a newline:
\* words and spaces, a `\` directly followed by a newline, words and spaces
ContinuedLine ==
    /\ parser.status = "returned"
    /\ \E p \in 2..(Len(parser.raw) - 2) :
           /\ parser.raw[p] = "\\"
           /\ parser.raw[p + 1] = "\n"
           /\ \A q \in 1..Len(parser.raw) :
                  q \notin {p, p + 1} => parser.raw[q] \in Alpha \cup {" "}

\* the texts of the String arguments of a statement, in order
RECURSIVE ArgumentTexts(_)
ArgumentTexts(children) ==
    IF children = <<>> THEN <<>>
    ELSE IF Head(children).kind = "String"
    THEN <<Head(children).text>> \o ArgumentTexts(Tail(children))
    ELSE ArgumentTexts(Tail(children))

\* C25: a backslash directly followed by a newline does not end the
\* command: the words of the continuation line belong to the statement of
\* the words before the backslash, and neither the backslash nor the
\* newline is an argument or an end of statement.
C25_ContinuationKeepsStatement ==
    ContinuedLine =>
        /\ Len(parser.nodes) = 1
        /\ parser.nodes[1].kind = "CommandStatement"
        /\ \A i \in 1..Len(ArgumentTexts(parser.nodes[1].children)) :
               /\ "\\" \notin Range(ArgumentTexts(parser.nodes[1].children)[i])
               /\ "\n" \notin Range(ArgumentTexts(parser.nodes[1].children)[i])

\* ================================================== the lexer and its options
\* C26: the tokens of a source (kind, value, flags, startPos, endPos) are
\* the same for lexer options that differ only in CommandNames.
C26_CommandNamesIgnored ==
    \A names \in CommandNameSets :
        previousTokens =
            PureRun(src, [options EXCEPT !.CommandNames = names],
                    Len(previousTokens)).hist

\* a bareword that is one of the command names given has been scanned
C26_Witness ==
    \E i \in 1..Len(previousTokens) :
        /\ previousTokens[i].kind = "String"
        /\ previousTokens[i].value \in options.CommandNames

\* a token of the history but for its flags, which a later `:` may extend
Unflagged(t) == [f \in DOMAIN t \ {"flags"} |-> t[f]]

\* C27: the history is append-only and duplicate-free under peek() and
\* next(): a call leaves the tokens already in it in place and appends at
\* most one; it holds one token for each scan, in scan order; prev(1) is the
\* token scanned last, also when it has only been peeked, prev(k) is the
\* k-th most recent, and prev(k) is undefined beyond the tokens scanned.
C27_HistoryAppendOnly ==
    /\ [][/\ Len(previousTokens') \in {Len(previousTokens),
                                       Len(previousTokens) + 1}
          /\ \A i \in 1..Len(previousTokens) :
                 /\ Unflagged(previousTokens'[i]) = Unflagged(previousTokens[i])
                 /\ previousTokens[i].flags \subseteq previousTokens'[i].flags
                 /\ scans'[i] = scans[i]]_vars
    /\ [](/\ Len(scans) = Len(previousTokens)
          /\ \A i \in 1..Len(scans) :
                 /\ scans[i].begin < scans[i].end
                 /\ i > 1 => scans[i - 1].end <= scans[i].begin
          /\ currentToken # 0 => prev(previousTokens, 1) = currentToken
          /\ \A k \in 1..(Len(previousTokens) + 2) :
                 prev(previousTokens, k) =
                     IF k <= Len(previousTokens)
                     THEN Len(previousTokens) + 1 - k ELSE 0)

\* three tokens are in the history, two were returned and the third has
\* only been peeked
C27_Witness ==
    /\ Len(previousTokens) = 3
    /\ Len(returned) = 2
    /\ currentToken = 3
    /\ prev(previousTokens, 3) = 1

\* C28: hasNext() agrees with next() in every state the lexer reaches by
\* peek() and next() calls: next() returns a token exactly when hasNext()
\* is true.
C28_HasNextAgreesWithNext ==
    hasNext(src, Lexer) <=> next(src, Lexer, options).ret # 0

\* the tokens next() has returned since reset() was called
SinceReset == SubSeq(returned, reply.arg + 1, Len(returned))

\* the kind, the value and the flags of a token, but for the Label flag,
\* which a `:` scanned later adds
Shape(t) == [kind |-> t.kind, value |-> t.value, flags |-> t.flags \ {"Label"}]

\* C29: after reset(), the tokens the following next() calls return are,
\* in kind, value and flags, those a new lexer over the same source and
\* options returns, also when a token was peeked or tokens were consumed
\* before the reset.
C29_ResetRestartsTokens ==
    reply.op = "reset" =>
        /\ Len(SinceReset) <= Len(PureRun(src, options, Len(SinceReset)).hist)
        /\ \A i \in 1..Len(SinceReset) :
               Shape(previousTokens[SinceReset[i]])
                   = Shape(PureRun(src, options, Len(SinceReset)).hist[i])

\* the tokens of a history that are neither Whitespace nor Comment
RECURSIVE OtherTokens(_)
OtherTokens(hist) ==
    IF hist = <<>> THEN <<>>
    ELSE IF Head(hist).kind \in {"Whitespace", "Comment"}
    THEN OtherTokens(Tail(hist))
    ELSE <<Head(hist)>> \o OtherTokens(Tail(hist))

\* C30: the options ParseWhitespaceAsTokens and ParseCommentsAsTokens only
\* add Whitespace and Comment tokens: once a source is scanned to its end,
\* its other tokens (kind, value, flags, startPos, endPos) are those scanned
\* with both options off, and with both off no Whitespace or Comment token
\* is scanned.  (One next() call more than there are other tokens shows
\* all the tokens of the source with both options off.)
C30_OptionsOnlyAddTokens ==
    /\ (~options.ParseWhitespaceAsTokens /\ ~options.ParseCommentsAsTokens)
           => OtherTokens(previousTokens) = previousTokens
    /\ ptr >= Len(src)
           => OtherTokens(previousTokens)
                  = PureRun(src, [options EXCEPT
                                      !.ParseWhitespaceAsTokens = FALSE,
                                      !.ParseCommentsAsTokens = FALSE],
                            Len(OtherTokens(previousTokens)) + 1).hist

====
